---- MODULE Spec2Model ----
(***************************************************************************)
(* Model of the form-data parser: the flat-key structure builder           *)
(* (processFormData, utils/formUtils.ts) and the path accessors            *)
(* (getValue / setValue / hasValue / deleteValue, utils/data.ts).          *)
(*                                                                         *)
(* JavaScript strings are sequences of one-character strings, so that      *)
(* split, trim, includes and parseInt are computed character by character. *)
(* JavaScript values are records tagged by the field t:                    *)
(*   "str" (s), "null", "undef", "num" (n, path segments only),            *)
(*   "obj" (e), "arr" (len, e), "file" (id, e).                            *)
(* e is the sequence of own enumerable properties [k, v] in the order      *)
(* Object.keys reports them: array-index keys ascending, then the other    *)
(* keys in insertion order.  A hole of an array is an index below len      *)
(* with no property.  A File is an object (typeof 'object') without own    *)
(* enumerable properties.  Every value is a tree: two entries never share  *)
(* one File object.                                                        *)
(***************************************************************************)
EXTENDS Integers, Sequences, FiniteSets, TLC

VARIABLES
    entries,   \* processFormData: the input pairs [key, value], in order
    family,    \* which family of inputs the entries are drawn from
    out,       \* processFormData: the returned mapping (NoOutput before the call)
    root,      \* accessors: the structure the caller holds (or null / undefined)
    call,      \* accessors: the last call and what it returned or raised
    written,   \* accessors: the paths setValue has written on this structure
    nops       \* accessors: number of calls made

vars == <<entries, family, out, root, call, written, nops>>

(***************************************************************************)
(* Bounds of the model.                                                    *)
(***************************************************************************)
MaxEntries == 3
MaxOps == 2

(***************************************************************************)
(* Characters and strings.                                                 *)
(***************************************************************************)
Digits == <<"0", "1", "2", "3", "4", "5", "6", "7", "8", "9">>

IsDigit(c) == \E i \in 1..10 : Digits[i] = c

DigitVal(c) == (CHOOSE i \in 1..10 : Digits[i] = c) - 1

IsSpace(c) == c = " "

IsSeparator(c) == c \in {".", "[", "]"}

RECURSIVE DropLeadingSpace(_)
DropLeadingSpace(s) ==
    IF s # <<>> /\ IsSpace(Head(s)) THEN DropLeadingSpace(Tail(s)) ELSE s

RECURSIVE DropTrailingSpace(_)
DropTrailingSpace(s) ==
    IF s # <<>> /\ IsSpace(s[Len(s)])
    THEN DropTrailingSpace(SubSeq(s, 1, Len(s) - 1))
    ELSE s

\* String.prototype.trim
Trim(s) == DropTrailingSpace(DropLeadingSpace(s))

\* String.prototype.includes
Includes(s, sub) ==
    \E i \in 1..(Len(s) - Len(sub) + 1) : SubSeq(s, i, i + Len(sub) - 1) = sub

RECURSIVE DigitPrefix(_)
DigitPrefix(s) ==
    IF s # <<>> /\ IsDigit(Head(s)) THEN <<Head(s)>> \o DigitPrefix(Tail(s)) ELSE <<>>

RECURSIVE DigitsValue(_)
DigitsValue(ds) ==
    IF ds = <<>> THEN 0
    ELSE 10 * DigitsValue(SubSeq(ds, 1, Len(ds) - 1)) + DigitVal(ds[Len(ds)])

\* parseInt(string) without a radix: leading white space is skipped, an
\* optional sign is read, then the longest run of decimal digits; no digit
\* gives NaN.  (The alphabet of the model has no "x", so the hexadecimal
\* prefix never occurs.)
NaN == [nan |-> TRUE, n |-> 0]

parseInt(s) ==
    LET body == DropLeadingSpace(s)
        neg == body # <<>> /\ Head(body) = "-"
        signed == body # <<>> /\ Head(body) \in {"-", "+"}
        ds == DigitPrefix(IF signed THEN Tail(body) ELSE body)
    IN IF ds = <<>> THEN NaN
       ELSE [nan |-> FALSE, n |-> IF neg THEN 0 - DigitsValue(ds) ELSE DigitsValue(ds)]

\* Number::toString for the integers parseInt returns
RECURSIVE NatToStr(_)
NatToStr(n) ==
    IF n < 10 THEN <<Digits[n + 1]>>
    ELSE NatToStr(n \div 10) \o <<Digits[(n % 10) + 1]>>

NumToStr(n) == IF n < 0 THEN <<"-">> \o NatToStr(0 - n) ELSE NatToStr(n)

\* String.prototype.split(/[.[\]]/): the fragments between separators,
\* empty ones included
RECURSIVE SplitFrom(_, _)
SplitFrom(s, cur) ==
    IF s = <<>> THEN <<cur>>
    ELSE IF IsSeparator(Head(s)) THEN <<cur>> \o SplitFrom(Tail(s), <<>>)
    ELSE SplitFrom(Tail(s), Append(cur, Head(s)))

Split(s) == SplitFrom(s, <<>>)

\* Array.prototype.filter(Boolean) on an array of strings
RECURSIVE FilterNonEmpty(_)
FilterNonEmpty(frags) ==
    IF frags = <<>> THEN <<>>
    ELSE IF Head(frags) = <<>> THEN FilterNonEmpty(Tail(frags))
    ELSE <<Head(frags)>> \o FilterNonEmpty(Tail(frags))

(***************************************************************************)
(* JavaScript values.                                                      *)
(***************************************************************************)
Str(s) == [t |-> "str", s |-> s]
Num(n) == [t |-> "num", n |-> n]
Null == [t |-> "null"]
Undefined == [t |-> "undef"]
File(i) == [t |-> "file", id |-> i, e |-> <<>>]
EmptyObj == [t |-> "obj", e |-> <<>>]
EmptyArr == [t |-> "arr", len |-> 0, e |-> <<>>]

UndefinedKey == <<"u", "n", "d", "e", "f", "i", "n", "e", "d">>
LengthKey == <<"l", "e", "n", "g", "t", "h">>
NaNKey == <<"N", "a", "N">>

\* An error raised inside a computation stands in the place of its value
\* and is handed on by every step that follows.
RaisedValue(err) == [t |-> "raise", err |-> err]

IsRaised(v) == v.t = "raise"

\* typeof v === 'object'
TypeofObject(v) == v.t \in {"obj", "arr", "file", "null"}

\* Array.isArray(v)
IsArray(v) == v.t = "arr"

\* ToBoolean(v): !v is its negation
Truthy(v) ==
    CASE v.t = "str" -> v.s # <<>>
      [] v.t = "num" -> v.n # 0
      [] v.t \in {"null", "undef"} -> FALSE
      [] OTHER -> TRUE

\* A property key is an array index when it is the canonical decimal form
\* of a non-negative integer.
IsArrayIndex(k) ==
    /\ k # <<>>
    /\ \A i \in 1..Len(k) : IsDigit(k[i])
    /\ (Len(k) = 1 \/ k[1] # "0")

\* ToPropertyKey of a path segment (a string, a number or undefined) and of
\* the result of parseInt
ToPropertyKey(seg) ==
    CASE seg.t = "num" -> NumToStr(seg.n)
      [] seg.t = "str" -> seg.s
      [] OTHER -> UndefinedKey

NumberKey(p) == IF p.nan THEN NaNKey ELSE NumToStr(p.n)

HasOwn(o, k) == \E i \in 1..Len(o.e) : o.e[i].k = k

\* o[k] for an own property (the alphabet of the model has no name of an
\* inherited property)
Get(o, k) ==
    IF IsArray(o) /\ k = LengthKey THEN Num(o.len)
    ELSE IF HasOwn(o, k) THEN o.e[CHOOSE i \in 1..Len(o.e) : o.e[i].k = k].v
    ELSE Undefined

\* Object.keys(o)
Keys(o) == [i \in 1..Len(o.e) |-> o.e[i].k]

KeySet(o) == {o.e[i].k : i \in 1..Len(o.e)}

\* Position at which a new property is reported by Object.keys
InsertAt(e, k) ==
    IF IsArrayIndex(k)
    THEN Cardinality({i \in 1..Len(e) :
             IsArrayIndex(e[i].k) /\ parseInt(e[i].k).n < parseInt(k).n}) + 1
    ELSE Len(e) + 1

RECURSIVE DropIndicesFrom(_, _)
DropIndicesFrom(e, n) ==
    IF e = <<>> THEN <<>>
    ELSE IF IsArrayIndex(Head(e).k) /\ parseInt(Head(e).k).n >= n
         THEN DropIndicesFrom(Tail(e), n)
         ELSE <<Head(e)>> \o DropIndicesFrom(Tail(e), n)

\* a.length = n for n >= 0
SetLength(a, n) == [a EXCEPT !.len = n, !.e = DropIndicesFrom(a.e, n)]

\* ToNumber of a value assigned to the length of an array, when it is a
\* valid length: null and a blank string give 0, a string of decimal digits
\* its value.  No other value of the model converts to a valid length.
IsValidLength(v) ==
    \/ v = Null
    \/ /\ v.t = "str"
       /\ \A i \in 1..Len(Trim(v.s)) : IsDigit(Trim(v.s)[i])

ToLength(v) == IF v = Null THEN 0 ELSE DigitsValue(Trim(v.s))

\* Defining or overwriting the own property k of o
SetProperty(o, k, v) ==
    LET e1 == IF HasOwn(o, k)
              THEN [i \in 1..Len(o.e) |-> IF o.e[i].k = k THEN [k |-> k, v |-> v] ELSE o.e[i]]
              ELSE LET p == InsertAt(o.e, k)
                   IN SubSeq(o.e, 1, p - 1) \o <<[k |-> k, v |-> v]>> \o SubSeq(o.e, p, Len(o.e))
    IN IF o.t = "arr"
       THEN [o EXCEPT !.e = e1,
                      !.len = IF IsArrayIndex(k) /\ parseInt(k).n + 1 > o.len
                              THEN parseInt(k).n + 1 ELSE o.len]
       ELSE [o EXCEPT !.e = e1]

\* o[k] = v.  Assigning the length of an array truncates or extends it, and
\* raises a RangeError when the value is not a valid length.
Put(o, k, v) ==
    IF IsRaised(o) THEN o
    ELSE IF IsRaised(v) THEN v
    ELSE IF IsArray(o) /\ k = LengthKey
    THEN (IF IsValidLength(v) THEN SetLength(o, ToLength(v))
          ELSE RaisedValue("RangeError"))
    ELSE SetProperty(o, k, v)

RECURSIVE RemoveKey(_, _)
RemoveKey(e, k) ==
    IF e = <<>> THEN <<>>
    ELSE IF Head(e).k = k THEN Tail(e)
    ELSE <<Head(e)>> \o RemoveKey(Tail(e), k)

\* delete o[k]
Delete(o, k) == [o EXCEPT !.e = RemoveKey(o.e, k)]

(***************************************************************************)
(* utils/data.ts: the path accessors.                                      *)
(* A call returns [err, ret, obj]: the error raised ("none" when the call  *)
(* completes), the returned value, and the structure as the call leaves    *)
(* it (the accessors mutate in place).                                     *)
(***************************************************************************)
Returned(ret, obj) == [err |-> "none", ret |-> ret, obj |-> obj]
Raised(err, obj) == [err |-> err, ret |-> Undefined, obj |-> obj]

\* segment => isNaN(parseInt(segment)) ? segment : parseInt(segment)
Segment(frag) ==
    IF parseInt(frag).nan THEN Str(frag) ELSE Num(parseInt(frag).n)

\* parsePath without the test for consecutive dots: a bug that lets the
\* empty fragment be filtered away
parsePathDotsAllowed(path) ==
    IF path = <<>> THEN [err |-> "InvalidPath", segs |-> <<>>]
    ELSE LET frags == FilterNonEmpty(Split(path))
         IN [err |-> "none", segs |-> [i \in 1..Len(frags) |-> Segment(frags[i])]]

parsePath(path) ==
    IF path = <<>> THEN [err |-> "InvalidPath", segs |-> <<>>]
    ELSE IF Includes(path, <<".", ".">>) THEN [err |-> "InvalidPath", segs |-> <<>>]
    ELSE LET frags == FilterNonEmpty(Split(path))
         IN [err |-> "none", segs |-> [i \in 1..Len(frags) |-> Segment(frags[i])]]

\* segments[segments.length - 1]: undefined when there is no segment
LastSegment(segs) == IF segs = <<>> THEN Undefined ELSE segs[Len(segs)]

\* The loop shared by getValue and hasValue, from segment i on:
\* [early |-> TRUE] when it returns from inside the loop.
RECURSIVE Walk(_, _, _)
Walk(current, segs, i) ==
    IF i > Len(segs) THEN [early |-> FALSE, v |-> current]
    ELSE IF current.t = "null" \/ ~TypeofObject(current)
         THEN [early |-> TRUE, v |-> Undefined]
         ELSE Walk(Get(current, ToPropertyKey(segs[i])), segs, i + 1)

\* a || b in place of a ?? b: a bug that replaces every falsy value
CoalesceFalsy(a, b) == IF ~Truthy(a) THEN b ELSE a

\* a ?? b
Coalesce(a, b) == IF a.t \in {"null", "undef"} THEN b ELSE a

\* getValue returning undefined from inside the loop: a bug that forgets the
\* default when the walk stops early
getValueEarlyUndefined(obj, path, defaultValue) ==
    IF ~Truthy(obj) THEN Raised("InvalidTarget", obj)
    ELSE LET p == parsePath(path)
         IN IF p.err # "none" THEN Raised(p.err, obj)
            ELSE LET w == Walk(obj, p.segs, 1)
                 IN IF w.early THEN Returned(Undefined, obj)
                    ELSE Returned(Coalesce(w.v, defaultValue), obj)

getValue(obj, path, defaultValue) ==
    IF ~Truthy(obj) THEN Raised("InvalidTarget", obj)
    ELSE LET p == parsePath(path)
         IN IF p.err # "none" THEN Raised(p.err, obj)
            ELSE LET w == Walk(obj, p.segs, 1)
                 IN IF w.early THEN Returned(defaultValue, obj)
                    ELSE Returned(Coalesce(w.v, defaultValue), obj)

\* hasValue testing only for undefined: a bug that reports a stored null as
\* present
hasValueNullCounts(obj, path) ==
    IF ~Truthy(obj) THEN Raised("InvalidTarget", obj)
    ELSE LET p == parsePath(path)
         IN IF p.err # "none" THEN Raised(p.err, obj)
            ELSE LET w == Walk(obj, p.segs, 1)
                 IN IF w.early THEN Returned(FALSE, obj)
                    ELSE Returned(w.v.t # "undef", obj)

hasValue(obj, path) ==
    IF ~Truthy(obj) THEN Raised("InvalidTarget", obj)
    ELSE LET p == parsePath(path)
         IN IF p.err # "none" THEN Raised(p.err, obj)
            ELSE LET w == Walk(obj, p.segs, 1)
                 IN IF w.early THEN Returned(FALSE, obj)
                    ELSE Returned(w.v.t \notin {"undef", "null"}, obj)

\* The loop of setValue without the test of what is there: a bug that
\* replaces every container on the way by a new one
RECURSIVE SetFromFresh(_, _, _, _)
SetFromFresh(current, segs, i, value) ==
    IF i >= Len(segs) THEN Put(current, ToPropertyKey(LastSegment(segs)), value)
    ELSE Put(current, ToPropertyKey(segs[i]),
             SetFromFresh(IF segs[i + 1].t = "num" THEN EmptyArr ELSE EmptyObj,
                          segs, i + 1, value))

\* The loop and the final assignment of setValue, from segment i on, as the
\* container current is left by them.
RECURSIVE SetFrom(_, _, _, _)
SetFrom(current, segs, i, value) ==
    IF i >= Len(segs) THEN Put(current, ToPropertyKey(LastSegment(segs)), value)
    ELSE LET key == ToPropertyKey(segs[i])
             child == Get(current, key)
             isNextNumeric == segs[i + 1].t = "num"
             next == IF ~Truthy(child) \/ ~TypeofObject(child)
                     THEN (IF isNextNumeric THEN EmptyArr ELSE EmptyObj)
                     ELSE child
         IN Put(current, key, SetFrom(next, segs, i + 1, value))

\* setValue parsing the path before it tests the target: a bug that reports
\* the path of a call on null
setValuePathFirst(obj, path, value) ==
    LET p == parsePath(path)
    IN IF p.err # "none" THEN Raised(p.err, obj)
       ELSE IF ~Truthy(obj) THEN Raised("InvalidTarget", obj)
       ELSE LET o == SetFrom(obj, p.segs, 1, value) IN Returned(o, o)

\* An assignment to the length of an array that raises is the last step of
\* the call, and every container before it was there already: the
\* structure is as it was.
setValue(obj, path, value) ==
    IF ~Truthy(obj) THEN Raised("InvalidTarget", obj)
    ELSE LET p == parsePath(path)
         IN IF p.err # "none" THEN Raised(p.err, obj)
            ELSE LET o == SetFrom(obj, p.segs, 1, value)
                 IN IF IsRaised(o) THEN Raised(o.err, obj) ELSE Returned(o, o)

\* The loop of createNestedStructure that never creates an array: a bug
\* that makes a plain object for an index
RECURSIVE CreateFromObjectsOnly(_, _, _, _)
CreateFromObjectsOnly(current, segs, i, value) ==
    IF i >= Len(segs) THEN Put(current, ToPropertyKey(LastSegment(segs)), value)
    ELSE Put(current, ToPropertyKey(segs[i]),
             CreateFromObjectsOnly(EmptyObj, segs, i + 1, value))

\* The loop and the final assignment of createNestedStructure, from
\* segment i on, as the container current is left by them.
RECURSIVE CreateFrom(_, _, _, _)
CreateFrom(current, segs, i, value) ==
    IF i >= Len(segs) THEN Put(current, ToPropertyKey(LastSegment(segs)), value)
    ELSE LET isNextNumeric == segs[i + 1].t = "num"
             next == IF isNextNumeric THEN EmptyArr ELSE EmptyObj
         IN Put(current, ToPropertyKey(segs[i]), CreateFrom(next, segs, i + 1, value))

createNestedStructure(segments, value) == CreateFrom(EmptyObj, segments, 1, value)

\* createFromPath has no target; a rejected path leaves nothing behind.
createFromPath(path, value) ==
    LET p == parsePath(path)
    IN IF p.err # "none" THEN Raised(p.err, Undefined)
       ELSE LET o == createNestedStructure(p.segs, value) IN Returned(o, o)

\* Object.keys(current).some(key => !isNaN(parseInt(key)) && parseInt(key) > lastSegment)
HasOtherProperties(current, lastSegment) ==
    \E i \in 1..Len(current.e) :
        /\ ~parseInt(current.e[i].k).nan
        /\ parseInt(current.e[i].k).n > lastSegment

\* The end of deleteValue without the trimming: a bug that leaves the
\* length of the array as it was
DeleteLastNoTrim(current, lastSegment) ==
    [err |-> "none", node |-> Delete(current, ToPropertyKey(lastSegment))]

\* The end of deleteValue: delete current[lastSegment], then the trimming
\* of the array.  Setting a negative length raises a RangeError, after the
\* property was deleted.  The length of an array cannot be deleted: the
\* delete raises a TypeError (module code is strict).
DeleteLast(current, lastSegment) ==
    LET deleted == Delete(current, ToPropertyKey(lastSegment))
    IN IF IsArray(current) /\ ToPropertyKey(lastSegment) = LengthKey
       THEN [err |-> "TypeError", node |-> current]
       ELSE IF IsArray(current) /\ lastSegment.t = "num"
       THEN IF HasOtherProperties(deleted, lastSegment.n) THEN [err |-> "none", node |-> deleted]
            ELSE IF lastSegment.n < 0 THEN [err |-> "RangeError", node |-> deleted]
            ELSE [err |-> "none", node |-> SetLength(deleted, lastSegment.n)]
       ELSE [err |-> "none", node |-> deleted]

\* The loop and the end of deleteValue, from segment i on.
RECURSIVE DeleteFrom(_, _, _)
DeleteFrom(current, segs, i) ==
    IF i >= Len(segs) THEN DeleteLast(current, LastSegment(segs))
    ELSE LET key == ToPropertyKey(segs[i])
             child == Get(current, key)
         IN IF ~Truthy(child) \/ ~TypeofObject(child)
            THEN [err |-> "none", node |-> current]
            ELSE LET d == DeleteFrom(child, segs, i + 1)
                 IN [err |-> d.err, node |-> Put(current, key, d.node)]

deleteValue(obj, path) ==
    IF ~Truthy(obj) THEN Raised("InvalidTarget", obj)
    ELSE LET p == parsePath(path)
         IN IF p.err # "none" THEN Raised(p.err, obj)
            ELSE LET d == DeleteFrom(obj, p.segs, 1)
                 IN IF d.err # "none" THEN Raised(d.err, d.node)
                    ELSE Returned(d.node, d.node)

(***************************************************************************)
(* The accessors as a state machine: a caller holds one structure and      *)
(* calls the four accessors on it in any order.                            *)
(***************************************************************************)
\* Paths the caller passes, by family of calls.
\* "structure": names, indices, a negative index, an array of objects, a
\* path that parses to no segment and the empty path.
StructurePaths ==
    { <<"a">>,
      <<"a", ".", "b">>,
      <<"a", "[", "0", "]">>,
      <<"a", "[", "1", "]">>,
      <<"a", "[", "-", "1", "]">>,
      <<"a", "[", "0", "]", ".", "b">>,
      <<".">>,
      <<>> }

\* "paths": the empty path, consecutive dots at any place, paths made only
\* of separators, an index beyond the end and a negative index.
OddPaths ==
    { <<>>,
      <<"a", ".", ".", "b">>,
      <<".", ".">>,
      <<"a", "[", "0", "]", ".", ".">>,
      <<".">>,
      <<"[", "]">>,
      <<"a">>,
      <<"a", "[", "5", "]">>,
      <<"a", "[", "-", "1", "]">>,
      <<"a", ".", "b">> }

\* "frame": paths beside each other and below each other, and the length
\* of an array read and written as a property.
FramePaths ==
    { <<"a">>,
      <<"b">>,
      <<"a", ".", "b">>,
      <<"a", "[", "0", "]">>,
      <<"a", "[", "1", "]">>,
      <<"a", "[", "0", "]", ".", "b">>,
      <<"a", ".", "l", "e", "n", "g", "t", "h">> }

AccPaths(f) ==
    CASE f = "paths" -> OddPaths
      [] f = "frame" -> FramePaths
      [] OTHER -> StructurePaths

\* Values the caller stores: a string, the empty string, a file, null.
AccValues(f) ==
    IF f \in {"paths", "frame"} THEN {Str(<<"x">>), Null}
    ELSE {Str(<<"x">>), Str(<<>>), File(1), Null}

\* Defaults passed to getValue; Undefined stands for the omitted argument.
AccDefaults == {Undefined, Str(<<"d">>)}

NoCall ==
    [op |-> "none", path |-> <<>>, arg |-> Undefined, before |-> Undefined,
     err |-> "none", ret |-> Undefined]

Called(op, path, arg, before, r) ==
    [op |-> op, path |-> path, arg |-> arg, before |-> before,
     err |-> r.err, ret |-> r.ret]

\* The structure setValue builds from obj by the given calls, in order
RECURSIVE Built(_, _)
Built(obj, sets) ==
    IF sets = <<>> THEN obj
    ELSE Built(setValue(obj, Head(sets)[1], Head(sets)[2]).obj, Tail(sets))

\* Structures the caller may hold at the start: none (null, undefined), the
\* empty object, and structures built by earlier calls of setValue: a
\* string, null, a nested object, a dense array, an array with a hole, an
\* array of objects, and a file on which a later call has set a property,
\* under the key a.
AccRoots ==
    { EmptyObj, Null, Undefined,
      Built(EmptyObj, << <<<<"a">>, Str(<<"x">>)>> >>),
      Built(EmptyObj, << <<<<"a">>, Null>> >>),
      Built(EmptyObj, << <<<<"a", ".", "b">>, Str(<<"x">>)>> >>),
      Built(EmptyObj, << <<<<"a", "[", "0", "]">>, Str(<<"x">>)>>,
                         <<<<"a", "[", "1", "]">>, Str(<<"y">>)>> >>),
      Built(EmptyObj, << <<<<"a", "[", "1", "]">>, Str(<<"x">>)>> >>),
      Built(EmptyObj, << <<<<"a", "[", "0", "]", ".", "b">>, Str(<<"x">>)>> >>),
      Built(EmptyObj, << <<<<"a">>, File(1)>>,
                         <<<<"a", ".", "b">>, Str(<<"x">>)>> >>) }

InitAcc(f) ==
    /\ family = f
    /\ entries = <<>>
    /\ out = Undefined
    /\ root \in AccRoots
    /\ call = NoCall
    /\ written = {}
    /\ nops = 0

SetValue ==
    /\ nops < MaxOps
    /\ \E path \in AccPaths(family), value \in AccValues(family) :
          LET r == setValue(root, path, value)
          IN /\ root' = r.obj
             /\ call' = Called("set", path, value, root, r)
             /\ written' = IF r.err = "none" THEN written \cup {path} ELSE written
    /\ nops' = nops + 1
    /\ UNCHANGED <<entries, family, out>>

DeleteValue ==
    /\ nops < MaxOps
    /\ \E path \in AccPaths(family) :
          LET r == deleteValue(root, path)
          IN /\ root' = r.obj
             /\ call' = Called("delete", path, Undefined, root, r)
    /\ nops' = nops + 1
    /\ UNCHANGED <<entries, family, out, written>>

GetValue ==
    /\ nops < MaxOps
    /\ \E path \in AccPaths(family), defaultValue \in AccDefaults :
          LET r == getValue(root, path, defaultValue)
          IN /\ root' = r.obj
             /\ call' = Called("get", path, defaultValue, root, r)
    /\ nops' = nops + 1
    /\ UNCHANGED <<entries, family, out, written>>

\* The caller replaces the structure it holds by a new one.
CreateFromPath ==
    /\ nops < MaxOps
    /\ \E path \in AccPaths(family), value \in AccValues(family) :
          LET r == createFromPath(path, value)
          IN /\ root' = IF r.err = "none" THEN r.ret ELSE root
             /\ call' = Called("create", path, value, root, r)
             /\ written' = IF r.err = "none" THEN {} ELSE written
    /\ nops' = nops + 1
    /\ UNCHANGED <<entries, family, out>>

HasValue ==
    /\ nops < MaxOps
    /\ \E path \in AccPaths(family) :
          LET r == hasValue(root, path)
          IN /\ root' = r.obj
             /\ call' = Called("has", path, Undefined, root, r)
    /\ nops' = nops + 1
    /\ UNCHANGED <<entries, family, out, written>>

(***************************************************************************)
(* utils/formUtils.ts: the structure builder.                              *)
(***************************************************************************)
\* isEmptyValue without the trim: a bug that keeps white-space-only strings
isEmptyValueNoTrim(value) == value.t = "str" /\ value.s = <<>>

\* typeof value === 'string' && value.trim() === ''
isEmptyValue(value) == value.t = "str" /\ Trim(value.s) = <<>>

\* !isNaN(parseInt(key))
isNumericKey(key) == ~parseInt(key).nan

\* The elements of an array in index order, holes skipped: what map, filter
\* and forEach visit.  The array-index properties stand first in e.
Elements(a) ==
    LET n == Cardinality({i \in 1..Len(a.e) : IsArrayIndex(a.e[i].k)})
    IN [i \in 1..n |-> a.e[i].v]

\* The dense array of the given elements, as filter returns it
MakeArray(vals) ==
    [t |-> "arr", len |-> Len(vals),
     e |-> [i \in 1..Len(vals) |-> [k |-> NatToStr(i - 1), v |-> vals[i]]]]

\* keys.sort((a, b) => parseInt(a) - parseInt(b)): the sort is stable, and a
\* comparator result of NaN counts as 0.
ComesAfter(a, b) ==
    ~parseInt(a).nan /\ ~parseInt(b).nan /\ parseInt(a).n > parseInt(b).n

RECURSIVE InsertSorted(_, _)
InsertSorted(sorted, key) ==
    IF sorted # <<>> /\ ComesAfter(sorted[Len(sorted)], key)
    THEN Append(InsertSorted(SubSeq(sorted, 1, Len(sorted) - 1), key), sorted[Len(sorted)])
    ELSE Append(sorted, key)

RECURSIVE SortKeys(_)
SortKeys(keys) ==
    IF keys = <<>> THEN <<>>
    ELSE InsertSorted(SortKeys(SubSeq(keys, 1, Len(keys) - 1)), keys[Len(keys)])

RECURSIVE normalizeStructure(_)
RECURSIVE AssignByIndex(_, _, _, _)
RECURSIVE NormalizeProperties(_, _, _)

\* forEach(key => { array[parseInt(key)] = normalizeStructure(obj[key]) })
AssignByIndex(obj, keys, i, array) ==
    IF i > Len(keys) THEN array
    ELSE AssignByIndex(obj, keys, i + 1,
             Put(array, NumberKey(parseInt(keys[i])), normalizeStructure(Get(obj, keys[i]))))

NotUndefined(val) == val # Undefined

convertToArray(obj) ==
    LET array == AssignByIndex(obj, SortKeys(Keys(obj)), 1, EmptyArr)
    IN MakeArray(SelectSeq(Elements(array), NotUndefined))

\* Object.entries(obj).forEach(...) of normalizeStructure, from entry i on
NormalizeProperties(obj, i, resultObj) ==
    IF i > Len(obj.e) THEN resultObj
    ELSE LET normalized == normalizeStructure(obj.e[i].v)
         IN NormalizeProperties(obj, i + 1,
                IF normalized # Undefined THEN Put(resultObj, obj.e[i].k, normalized)
                ELSE resultObj)

normalizeStructure(item) ==
    IF item.t = "null" \/ ~TypeofObject(item) THEN item
    ELSE IF IsArray(item)
    THEN LET els == Elements(item)
         IN MakeArray(SelectSeq([i \in 1..Len(els) |-> normalizeStructure(els[i])], Truthy))
    ELSE LET keys == Keys(item)
             allNumericKeys == Len(keys) > 0 /\ \A i \in 1..Len(keys) : isNumericKey(keys[i])
         IN IF allNumericKeys THEN convertToArray(item)
            ELSE NormalizeProperties(item, 1, EmptyObj)

\* The loop and the final assignment of setNestedValue, from path[i] on
\* (i counts from 1), as the container current is left by them.
RECURSIVE NestFrom(_, _, _, _)
NestFrom(current, path, i, value) ==
    IF i >= Len(path) THEN Put(current, path[Len(path)], value)
    ELSE IF IsArray(current) /\ path[i] = LengthKey
    THEN \* current.length is a number and is replaced: by {}, which is no
         \* valid length, or by [], which sets the length 0, after which
         \* current is the number 0 and the next assignment to a property
         \* of it raises a TypeError (module code is strict)
         (IF isNumericKey(path[i + 1]) THEN RaisedValue("TypeError")
          ELSE RaisedValue("RangeError"))
    ELSE LET key == path[i]
             child == Get(current, key)
             isNextKeyNumeric == isNumericKey(path[i + 1])
             next == IF ~Truthy(child) \/ ~TypeofObject(child)
                     THEN (IF isNextKeyNumeric THEN EmptyArr ELSE EmptyObj)
                     ELSE IF isNextKeyNumeric /\ ~IsArray(child)
                     THEN convertToArray(child)
                     ELSE child
         IN Put(current, key, NestFrom(next, path, i + 1, value))

\* setNestedValue without the test of the value: a bug that stores empty
\* strings
setNestedValueKeepEmpty(obj, path, value) ==
    IF IsRaised(obj) \/ Len(path) = 0 THEN obj ELSE NestFrom(obj, path, 1, value)

setNestedValue(obj, path, value) ==
    IF IsRaised(obj) \/ Len(path) = 0 \/ isEmptyValue(value) THEN obj
    ELSE NestFrom(obj, path, 1, value)

\* The forEach of processFieldGroups run from the last field to the first:
\* a bug that lets the earliest entry of a key win
RECURSIVE BuildTempLastFirst(_, _, _)
BuildTempLastFirst(fields, i, tempObj) ==
    IF i > Len(fields) THEN tempObj
    ELSE setNestedValue(BuildTempLastFirst(fields, i + 1, tempObj),
                        fields[i].path, fields[i].value)

\* fields.forEach(field => setNestedValue(tempObj, field.path, field.value))
RECURSIVE BuildTemp(_, _, _)
BuildTemp(fields, i, tempObj) ==
    IF i > Len(fields) THEN tempObj
    ELSE BuildTemp(fields, i + 1, setNestedValue(tempObj, fields[i].path, fields[i].value))

\* The filter of processFieldGroups on the elements of an array group
NonEmptyProperty(val) ==
    val # Null /\ ((val.t = "str" /\ Trim(val.s) # <<>>) \/ val.t # "str")

KeepItem(item) ==
    IF TypeofObject(item) /\ item # Null /\ ~IsArray(item)
    THEN \E i \in 1..Len(item.e) : NonEmptyProperty(item.e[i].v)
    ELSE item # Undefined

\* The value of a group, or the error an insertion raised (to
\* normalizeStructure the error is no object, and it hands it back)
GroupValue(fields) ==
    LET isArrayStructure ==
            \A i \in 1..Len(fields) :
                Len(fields[i].path) > 0 /\ isNumericKey(fields[i].path[1])
        normalized == normalizeStructure(BuildTemp(fields, 1, EmptyObj))
    IN IF isArrayStructure /\ IsArray(normalized)
       THEN MakeArray(SelectSeq(Elements(normalized), KeepItem))
       ELSE normalized

\* The loop of processFieldGroups leaving out a group without content: a
\* bug that omits the root key
RECURSIVE processFieldGroupsSkipEmpty(_, _, _)
processFieldGroupsSkipEmpty(fieldGroups, i, result) ==
    IF i > Len(fieldGroups.e) THEN result
    ELSE processFieldGroupsSkipEmpty(fieldGroups, i + 1,
             IF GroupValue(fieldGroups.e[i].v) \in {EmptyObj, EmptyArr} THEN result
             ELSE Put(result, fieldGroups.e[i].k, GroupValue(fieldGroups.e[i].v)))

\* Object.entries(fieldGroups).forEach(...), from group i on
RECURSIVE processFieldGroupsFrom(_, _, _)
processFieldGroupsFrom(fieldGroups, i, result) ==
    IF i > Len(fieldGroups.e) THEN result
    ELSE processFieldGroupsFrom(fieldGroups, i + 1,
             Put(result, fieldGroups.e[i].k, GroupValue(fieldGroups.e[i].v)))

processFieldGroups(fieldGroups) == processFieldGroupsFrom(fieldGroups, 1, EmptyObj)

\* A test for simple keys that also looks for ']': a bug that takes "a]" for
\* a path
IsSimpleKeyNoBrackets(key) ==
    ~Includes(key, <<".">>) /\ ~Includes(key, <<"[">>) /\ ~Includes(key, <<"]">>)

\* !key.includes('.') && !key.includes('[')
IsSimpleKey(key) == ~Includes(key, <<".">>) /\ ~Includes(key, <<"[">>)

\* The first forEach of processFormData: the simple fields
RECURSIVE SimpleFields(_, _, _)
SimpleFields(ents, i, result) ==
    IF i > Len(ents) THEN result
    ELSE SimpleFields(ents, i + 1,
             IF IsSimpleKey(ents[i].key) THEN Put(result, ents[i].key, ents[i].value)
             ELSE result)

\* The path without slice(1): a bug that keeps the base name in the path
FieldPathWithBase(parts) == parts

\* key.split(/[.[\]]/) without filter(Boolean): a bug that keeps the empty
\* fragment between ']' and '.'
KeyPartsKeepEmpty(key) == Split(key)

\* key.split(/[.[\]]/).filter(Boolean)
KeyParts(key) == FilterNonEmpty(Split(key))

\* parts.slice(1)
FieldPath(parts) == SubSeq(parts, 2, Len(parts))

\* nestedEntries.forEach(...): the grouping by base name.  A key with no
\* part has the base name undefined, the property key "undefined".
RECURSIVE GroupFields(_, _, _)
GroupFields(ents, i, fieldGroups) ==
    IF i > Len(ents) THEN fieldGroups
    ELSE IF IsSimpleKey(ents[i].key) THEN GroupFields(ents, i + 1, fieldGroups)
    ELSE LET parts == KeyParts(ents[i].key)
             baseName == IF parts = <<>> THEN UndefinedKey ELSE parts[1]
             field == [path |-> FieldPath(parts), value |-> ents[i].value]
             group == IF HasOwn(fieldGroups, baseName) THEN Get(fieldGroups, baseName) ELSE <<>>
         IN GroupFields(ents, i + 1, SetProperty(fieldGroups, baseName, Append(group, field)))

\* { ...result, ...groups }; an error raised while the groups were built
\* is what the call ends with
RECURSIVE Spread(_, _, _)
Spread(target, source, i) ==
    IF IsRaised(source) THEN source
    ELSE IF IsRaised(target) \/ i > Len(source.e) THEN target
    ELSE Spread(Put(target, source.e[i].k, source.e[i].v), source, i + 1)

\* processFormData merging in the other order: a bug that lets the simple
\* field win over the group of the same name
processFormDataSimpleWins(ents) ==
    LET result == SimpleFields(ents, 1, EmptyObj)
        fieldGroups == GroupFields(ents, 1, EmptyObj)
    IN Spread(Spread(EmptyObj, processFieldGroups(fieldGroups), 1), result, 1)

\* The returned mapping, or the error a group raised.
processFormData(ents) ==
    LET result == SimpleFields(ents, 1, EmptyObj)
        fieldGroups == GroupFields(ents, 1, EmptyObj)
    IN Spread(Spread(EmptyObj, result, 1), processFieldGroups(fieldGroups), 1)

(***************************************************************************)
(* The builder as a state machine: the caller collects entries (the form   *)
(* fields in document order, or the pairs of a record) and then calls      *)
(* processFormData once.                                                   *)
(***************************************************************************)
NoOutput == Undefined

\* Keys are written from their segments: root[i], root[i].field, and in
\* general a name after a dot and an index in brackets.
IndexKey(name, i) == name \o <<"[">> \o NatToStr(i) \o <<"]">>

FieldKey(name, i, field) == IndexKey(name, i) \o <<".">> \o field

\* Keys and values of each family of inputs.
\* "indexed": root[i] = s, with gaps, a two-digit index and a simple field
\* of the same name.
IndexedIndices == {0, 1, 3, 10}

IndexedKeys == {IndexKey(<<"r">>, i) : i \in IndexedIndices} \cup { <<"r">> }

IndexedValues == {Str(<<>>), Str(<<" ">>), Str(<<"a">>), Str(<<" ", "b">>)}

\* "fields": root[i].field = s.
FieldsIndices == {0, 1, 2}

FieldsNames == { <<"a">>, <<"b">> }

FieldsKeys ==
    {FieldKey(<<"r">>, i, f) : i \in FieldsIndices, f \in FieldsNames}
        \ {FieldKey(<<"r">>, 2, <<"b">>)}

FieldsValues == {Str(<<>>), Str(<<" ">>), Str(<<"x">>), Str(<<"y">>)}

\* "nested": objects, arrays and arrays of objects below the root, a key
\* with no segment after the root, a key with consecutive dots and an
\* index written with a leading zero.
NestedKeys ==
    { <<"r", ".", "a">>,
      <<"r", ".", "b", "[", "0", "]">>,
      <<"r", ".", "b", "[", "1", "]">>,
      <<"r", "[", "0", "]", ".", "a">>,
      <<"r", "[", "1", "]", ".", "a">>,
      <<"r", ".", "b", "[", "0", "]", ".", "c">>,
      <<"r", ".">>,
      <<"r", ".", ".", "a">>,
      <<"r", ".", "b", "[", "0", "1", "]">> }

NestedValues == {Str(<<"x">>), Str(<<"y">>)}

\* "simple": keys without '.' and '[', and one path-bearing key.
SimpleKeys == { <<"a">>, <<>>, <<"a", "]">>, <<"a", ".", "b">> }

SimpleValues == {Str(<<>>), Str(<<" ">>), Str(<<"x">>), File(1), Null}

\* "notation": every spelling, with dots, with brackets and mixed, of two
\* segment sequences: an array below a name and a name below the root.
NotationSeqs ==
    { << <<"r">>, <<"b">>, <<"0">> >>,
      << <<"r">>, <<"a">> >> }

RECURSIVE Spellings(_)
Spellings(seq) ==
    IF Len(seq) = 1 THEN {seq[1]}
    ELSE LET init == Spellings(SubSeq(seq, 1, Len(seq) - 1))
             last == seq[Len(seq)]
         IN {k \o <<".">> \o last : k \in init}
                \cup {k \o <<"[">> \o last \o <<"]">> : k \in init}

NotationKeys == UNION {Spellings(seq) : seq \in NotationSeqs}

NotationValues == {Str(<<"x">>), Str(<<"y">>)}

\* "conflict": keys whose shapes conflict (an array, a value, an object
\* and a named property at the same place, the name being that of the
\* length of an array), a key with consecutive dots and a key made only of
\* separators.
ConflictKeys ==
    { <<"r", ".", "b", "[", "0", "]">>,
      <<"r", ".", "b">>,
      <<"r", ".", "b", ".", "a">>,
      <<"r", ".", "b", ".", "l", "e", "n", "g", "t", "h">>,
      <<"r", ".", ".", "b", "[", "0", "]", ".", "c">>,
      <<".">> }

ConflictValues == {Str(<<"x">>), Str(<<"1">>), Null}

\* "values": strings, blank strings, files and null at the top level of an
\* array group, in an object of an array group, in an array below a name
\* and in an object of a second group.
ValuesKeys ==
    { <<"r", "[", "0", "]">>,
      <<"r", "[", "1", "]", ".", "a">>,
      <<"r", ".", "b", "[", "0", "]">>,
      <<"s", ".", "a">> }

ValuesValues == {Str(<<"x">>), Str(<<" ">>), File(1), Null}

FamilyKeys(f) ==
    CASE f = "indexed" -> IndexedKeys
      [] f = "fields" -> FieldsKeys
      [] f = "nested" -> NestedKeys
      [] f = "simple" -> SimpleKeys
      [] f = "notation" -> NotationKeys
      [] f = "conflict" -> ConflictKeys
      [] f = "values" -> ValuesKeys

FamilyValues(f) ==
    CASE f = "indexed" -> IndexedValues
      [] f = "fields" -> FieldsValues
      [] f = "nested" -> NestedValues
      [] f = "simple" -> SimpleValues
      [] f = "notation" -> NotationValues
      [] f = "conflict" -> ConflictValues
      [] f = "values" -> ValuesValues

Families == {"indexed", "fields", "nested", "simple", "notation", "conflict", "values"}

InitForm(f) ==
    /\ family = f
    /\ entries = <<>>
    /\ out = NoOutput
    /\ root = Undefined
    /\ call = NoCall
    /\ written = {}
    /\ nops = 0

AddEntry ==
    /\ out = NoOutput
    /\ Len(entries) < MaxEntries
    /\ \E key \in FamilyKeys(family), value \in FamilyValues(family) :
          entries' = Append(entries, [key |-> key, value |-> value])
    /\ UNCHANGED <<family, out, root, call, written, nops>>

Process ==
    /\ out = NoOutput
    /\ out' = processFormData(entries)
    /\ UNCHANGED <<entries, family, root, call, written, nops>>

NextForm == AddEntry \/ Process

NextAcc == SetValue \/ DeleteValue \/ GetValue \/ HasValue

NextCreate == CreateFromPath

Init == \E f \in Families : InitForm(f)

Next == NextForm

Spec == Init /\ [][Next]_vars

SpecIndexed == InitForm("indexed") /\ [][NextForm]_vars

SpecFields == InitForm("fields") /\ [][NextForm]_vars

SpecNested == InitForm("nested") /\ [][NextForm]_vars

SpecSimple == InitForm("simple") /\ [][NextForm]_vars

SpecNotation == InitForm("notation") /\ [][NextForm]_vars

SpecConflict == InitForm("conflict") /\ [][NextForm]_vars

SpecValues == InitForm("values") /\ [][NextForm]_vars

SpecAcc == InitAcc("structure") /\ [][NextAcc]_vars

SpecAccPaths == InitAcc("paths") /\ [][NextAcc]_vars

SpecCreate == InitAcc("structure") /\ [][NextCreate]_vars

SpecFrame == InitAcc("frame") /\ [][NextAcc]_vars

(***************************************************************************)
(* Properties.                                                             *)
(***************************************************************************)
Processed == out # NoOutput

\* A string with a character that is not white space
NonBlank(s) == \E i \in 1..Len(s) : s[i] # " "

RootR == <<"r">>

\* ---- C1 ----
IsIndexedEntry(k) == \E i \in IndexedIndices : entries[k].key = IndexKey(RootR, i)

IndexOfEntry(k) == CHOOSE i \in IndexedIndices : entries[k].key = IndexKey(RootR, i)

IndexedEntries == {k \in 1..Len(entries) : IsIndexedEntry(k)}

DistinctIndices ==
    \A j, k \in IndexedEntries : j # k => IndexOfEntry(j) # IndexOfEntry(k)

\* The indices whose value is not blank, and the position of each among them
KeptIndices ==
    {IndexOfEntry(k) : k \in {j \in IndexedEntries : NonBlank(entries[j].value.s)}}

RankIn(S, i) == Cardinality({j \in S : j < i})

ValueOfIndex(i) ==
    entries[CHOOSE k \in IndexedEntries : IndexOfEntry(k) = i].value

\* C1: when the path-bearing entries are r[i] = s_i with pairwise distinct
\* indices and at least one s_i is not blank, the output maps r to the array
\* of exactly the non-blank s_i, in ascending order of i, renumbered from 0
\* without holes, whatever the order of the entries and the gaps.
C1_IndexedArrayCompacted ==
    (Processed /\ family = "indexed" /\ DistinctIndices /\ KeptIndices # {}) =>
        LET array == Get(out, RootR)
        IN /\ IsArray(array)
           /\ array.len = Cardinality(KeptIndices)
           /\ Len(array.e) = Cardinality(KeptIndices)
           /\ \A i \in KeptIndices :
                 Get(array, NatToStr(RankIn(KeptIndices, i))) = ValueOfIndex(i)

\* Three entries out of index order, one of them blank, leaving a gap
C1_Witness ==
    /\ Processed /\ family = "indexed" /\ DistinctIndices
    /\ Cardinality(IndexedEntries) = 3
    /\ Cardinality(KeptIndices) = 2
    /\ \E j, k \in IndexedEntries :
          /\ j < k /\ IndexOfEntry(j) > IndexOfEntry(k) + 1
          /\ NonBlank(entries[j].value.s) /\ NonBlank(entries[k].value.s)
    /\ Get(out, RootR).len = 2

\* ---- C2 ----
FieldEntries(i, f) ==
    {k \in 1..Len(entries) : entries[k].key = FieldKey(RootR, i, f)}

\* The entries of r[i].f whose value is not blank
FilledEntries(i, f) == {k \in FieldEntries(i, f) : NonBlank(entries[k].value.s)}

FilledFields(i) == {f \in FieldsNames : FilledEntries(i, f) # {}}

FilledIndices == {i \in FieldsIndices : FilledFields(i) # {}}

LastOf(S) == CHOOSE k \in S : \A j \in S : j <= k

\* C2: in a group of entries r[i].field = s, an index all of whose values
\* are blank contributes no element; the output array holds one object per
\* index with a non-blank field, in ascending index order, each holding
\* exactly the non-blank fields of its index, and no object without one.
\* With no such index there is no array and no element at all.
C2_EmptyObjectsDropped ==
    (Processed /\ family = "fields" /\ entries # <<>>) =>
        LET array == Get(out, RootR)
        IN IF FilledIndices = {} THEN array = EmptyObj
           ELSE /\ IsArray(array)
                /\ array.len = Cardinality(FilledIndices)
                /\ Len(array.e) = Cardinality(FilledIndices)
                /\ \A i \in FilledIndices :
                      LET item == Get(array, NatToStr(RankIn(FilledIndices, i)))
                      IN /\ item.t = "obj"
                         /\ KeySet(item) = FilledFields(i)
                         /\ \A f \in FilledFields(i) :
                               Get(item, f) = entries[LastOf(FilledEntries(i, f))].value

\* Index 1 has only blank values and stands between two filled indices
C2_Witness ==
    /\ Processed /\ family = "fields"
    /\ FilledIndices = {0, 2}
    /\ \E f \in FieldsNames : FieldEntries(1, f) # {}
    /\ Get(out, RootR).len = 2

\* ---- C3 ----
EntryIds == 1..Len(entries)

\* The segment sequence of the key of entry k
Segs(k) == KeyParts(entries[k].key)

IsPrefix(a, b) == Len(a) <= Len(b) /\ SubSeq(b, 1, Len(a)) = a

HasConsecutiveDots(path) ==
    \E i \in 1..(Len(path) - 1) : path[i] = "." /\ path[i + 1] = "."

MinLen(a, b) == IF Len(a) <= Len(b) THEN Len(a) ELSE Len(b)

\* Entries j and k reach position p through the same segments
SamePosition(j, k, p) ==
    /\ p <= MinLen(Segs(j), Segs(k))
    /\ SubSeq(Segs(j), 1, p - 1) = SubSeq(Segs(k), 1, p - 1)

DistinctKeys == \A j, k \in EntryIds : j # k => entries[j].key # entries[k].key

NoPrefixKeys == \A j, k \in EntryIds : j # k => ~IsPrefix(Segs(j), Segs(k))

\* Every position is index-keyed in all entries that reach it or in none,
\* an index being a segment that parses as an integer
ConsistentPositions ==
    \A j, k \in EntryIds : \A p \in 1..MinLen(Segs(j), Segs(k)) :
        SamePosition(j, k, p) => (isNumericKey(Segs(j)[p]) <=> isNumericKey(Segs(k)[p]))

DenseIndices ==
    \A k \in EntryIds : \A p \in 1..Len(Segs(k)) :
        isNumericKey(Segs(k)[p]) =>
            \A m \in 0..(parseInt(Segs(k)[p]).n - 1) :
                \E j \in EntryIds :
                    /\ SamePosition(j, k, p)
                    /\ isNumericKey(Segs(j)[p]) /\ parseInt(Segs(j)[p]).n = m

WellFormedNested ==
    /\ Processed /\ family = "nested" /\ entries # <<>>
    /\ \A k \in EntryIds : NonBlank(entries[k].value.s)
    /\ DistinctKeys /\ NoPrefixKeys /\ ConsistentPositions /\ DenseIndices

EveryValueAtItsPath ==
    \A k \in EntryIds :
        getValue(out, entries[k].key, Undefined) = Returned(entries[k].value, out)

\* C3 as stated: for path-bearing entries with non-blank string values,
\* distinct keys, no key a prefix of another, positions used consistently
\* and dense indices, getValue finds every value of the input at its key in
\* the output.
C3_EveryValueAtItsPath == WellFormedNested => EveryValueAtItsPath

\* The keys getValue can follow: a segment after the root, no consecutive
\* dots, every index in canonical decimal form
CanonicalKeys ==
    \A k \in EntryIds :
        /\ Len(Segs(k)) >= 2
        /\ ~HasConsecutiveDots(entries[k].key)
        /\ \A p \in 1..Len(Segs(k)) :
              isNumericKey(Segs(k)[p]) => IsArrayIndex(Segs(k)[p])

\* C3 amended: the same, for keys that have at least one segment after the
\* root, hold no two consecutive dots and write every index in canonical
\* decimal form.
C3_CanonicalValueAtItsPath ==
    (WellFormedNested /\ CanonicalKeys) => EveryValueAtItsPath

\* An object holding a name and an array whose first element is an object
C3_Witness ==
    /\ WellFormedNested /\ CanonicalKeys
    /\ Len(entries) = 3
    /\ \E k \in EntryIds : Len(Segs(k)) = 4
    /\ \E k \in EntryIds : Segs(k)[Len(Segs(k))] = <<"1">>
    /\ EveryValueAtItsPath

\* ---- C4 ----
IsPlainKey(key) == \A i \in 1..Len(key) : key[i] \notin {".", "["}

\* C4: when all keys are simple and pairwise distinct, the output has
\* exactly the input keys, each with its input value unchanged, empty and
\* white-space-only strings included; the empty input gives the empty
\* mapping.
C4_SimpleFieldsUnchanged ==
    (Processed /\ family = "simple" /\ DistinctKeys
       /\ \A k \in EntryIds : IsPlainKey(entries[k].key)) =>
        /\ out.t = "obj"
        /\ Len(out.e) = Len(entries)
        /\ KeySet(out) = {entries[k].key : k \in EntryIds}
        /\ \A k \in EntryIds : Get(out, entries[k].key) = entries[k].value
        /\ (entries = <<>> => out = EmptyObj)

\* Three simple fields, among them an empty string and a value that is not
\* a string
C4_Witness ==
    /\ Processed /\ family = "simple" /\ DistinctKeys
    /\ Len(entries) = 3
    /\ \A k \in EntryIds : IsPlainKey(entries[k].key)
    /\ \E k \in EntryIds : entries[k].value = Str(<<>>)
    /\ \E k \in EntryIds : entries[k].value \in {File(1), Null}
    /\ Len(out.e) = 3

\* ---- C5 ----
\* The last call was setValue({}, path, arg) and it completed
SetOnEmpty == call.op = "set" /\ call.before = EmptyObj /\ call.err = "none"

\* C5 as stated: getValue(setValue({}, p, v), p) equals v for every
\* accepted path p and every value v, a string, a file or null.
C5_RoundTrip ==
    SetOnEmpty => getValue(root, call.path, Undefined) = Returned(call.arg, root)

\* C5 amended: for an accepted path with at least one segment the round
\* trip returns v when v is a string or a file and undefined when v is
\* null; for an accepted path without a segment getValue returns the
\* structure itself.
C5_RoundTripOfStoredValue ==
    SetOnEmpty =>
        LET got == getValue(root, call.path, Undefined)
        IN /\ got.err = "none"
           /\ got.ret = IF parsePath(call.path).segs = <<>> THEN root
                        ELSE IF call.arg = Null THEN Undefined
                        ELSE call.arg

\* A file stored below an array of objects and read back
C5_Witness ==
    /\ SetOnEmpty
    /\ Len(parsePath(call.path).segs) = 3
    /\ call.arg = File(1)
    /\ getValue(root, call.path, Undefined).ret = File(1)

\* ---- C6 ----
\* C6: for every path previously set with setValue on the structure,
\* deleteValue completes and hasValue is false immediately afterwards.
C6_DeleteThenHasIsFalse ==
    (call.op = "delete" /\ call.path \in written) =>
        /\ call.err = "none"
        /\ hasValue(root, call.path) = Returned(FALSE, root)

\* ---- C7 ----
\* The last call was one of the four accessors
AccessorCall == call.op \in {"get", "set", "has", "delete"}

NonNullTarget == AccessorCall /\ call.before \notin {Null, Undefined}

\* C7: with a non-null root, each accessor raises the invalid-path error
\* for the empty path and for every path with two consecutive dots.
C7_InvalidPathRaised ==
    (NonNullTarget /\ (call.path = <<>> \/ HasConsecutiveDots(call.path))) =>
        call.err = "InvalidPath"

\* deleteValue on a path that ends in two dots
C7_Witness ==
    /\ NonNullTarget /\ call.op = "delete"
    /\ call.path = <<"a", "[", "0", "]", ".", ".">>
    /\ call.err = "InvalidPath"

\* ---- C8 ----
\* C8: each accessor raises the invalid-target error when the root is null
\* or undefined, whatever the path.
C8_NullTargetRaised ==
    (AccessorCall /\ call.before \in {Null, Undefined}) =>
        call.err = "InvalidTarget"

\* setValue on undefined with the empty path
C8_Witness ==
    /\ call.op = "set" /\ call.before = Undefined /\ call.path = <<>>
    /\ call.err = "InvalidTarget"

\* ---- C9 ----
\* C9: every call completes or raises one of two errors, invalid target
\* (null root) or invalid path (empty path, consecutive dots), also for
\* negative and out-of-range indices and paths made only of separators.
C9_OnlyTwoErrorKinds ==
    AccessorCall =>
        /\ call.err \in {"none", "InvalidTarget", "InvalidPath"}
        /\ (call.err = "InvalidTarget" <=> call.before \in {Null, Undefined})
        /\ (call.err = "InvalidPath" <=>
               (NonNullTarget /\ (call.path = <<>> \/ HasConsecutiveDots(call.path))))

\* ---- C10 ----
\* The value stored at the segments: own properties followed from the
\* node, undefined where one is missing or the node holds no properties
RECURSIVE StoredAt(_, _)
StoredAt(node, segs) ==
    IF segs = <<>> THEN node
    ELSE IF node.t \in {"obj", "arr", "file"} /\ HasOwn(node, ToPropertyKey(Head(segs)))
         THEN StoredAt(Get(node, ToPropertyKey(Head(segs))), Tail(segs))
         ELSE Undefined

AcceptedPaths == {p \in AccPaths(family) : parsePath(p).err = "none"}

\* C11: on every structure the caller can hold and for every accepted path,
\* hasValue completes and is true exactly when getValue without a default
\* returns something other than undefined, which is exactly when the value
\* stored at the path is neither null nor undefined.
C11_HasIffGetDefined ==
    root \notin {Null, Undefined} =>
        \A p \in AcceptedPaths :
            LET has == hasValue(root, p)
                got == getValue(root, p, Undefined)
            IN /\ has.err = "none" /\ got.err = "none"
               /\ has.ret \in BOOLEAN
               /\ has.ret = (got.ret # Undefined)
               /\ has.ret = (StoredAt(root, parsePath(p).segs) \notin {Null, Undefined})

\* hasValue was called on a path that holds null, next to one that holds
\* a string
C11_Witness ==
    /\ call.op = "has" /\ call.err = "none"
    /\ call.path = <<"a", "[", "0", "]">>
    /\ StoredAt(call.before, <<Str(<<"a">>), Num(0)>>) = Null
    /\ StoredAt(call.before, <<Str(<<"a">>), Num(1)>>) = Str(<<"y">>)
    /\ call.ret = FALSE
    /\ hasValue(root, <<"a", "[", "1", "]">>).ret = TRUE

\* ---- C12 ----
\* Some segment before the last one resolves to a value that is missing,
\* null or not a container: a string or a file, the leaf values
BlockedBeforeLast(node, segs) ==
    \E i \in 1..(Len(segs) - 1) :
        StoredAt(node, SubSeq(segs, 1, i)).t \notin {"obj", "arr"}

\* C12: when a segment before the last one resolves to a missing, null or
\* non-container value, deleteValue raises no error, returns the root it was
\* given and leaves the whole structure as it was.
C12_DeleteBlockedIsNoOp ==
    (call.op = "delete" /\ NonNullTarget /\ parsePath(call.path).err = "none"
       /\ BlockedBeforeLast(call.before, parsePath(call.path).segs)) =>
        /\ call.err = "none"
        /\ call.ret = call.before
        /\ root = call.before

\* ---- C13 ----
\* The last call was createFromPath(path, arg) and it completed
Created == call.op = "create" /\ call.err = "none"

\* A single chain along the segments: every container on the way holds one
\* property, the container reached by a segment is an array exactly when
\* the next segment is a number, and v stands at the end
IsChain(node, segs, v) ==
    /\ node.t = "obj"
    /\ \A i \in 0..(Len(segs) - 1) :
          Len(StoredAt(node, SubSeq(segs, 1, i)).e) = 1
    /\ \A i \in 1..(Len(segs) - 1) :
          StoredAt(node, SubSeq(segs, 1, i)).t =
              IF segs[i + 1].t = "num" THEN "arr" ELSE "obj"
    /\ StoredAt(node, segs) = v

SeqOfKey(key) == CHOOSE seq \in NotationSeqs : key \in Spellings(seq)

RECURSIVE DotSpelling(_)
DotSpelling(seq) ==
    IF Len(seq) = 1 THEN seq[1]
    ELSE DotSpelling(SubSeq(seq, 1, Len(seq) - 1)) \o <<".">> \o seq[Len(seq)]

RECURSIVE BracketSpelling(_)
BracketSpelling(seq) ==
    IF Len(seq) = 1 THEN seq[1]
    ELSE BracketSpelling(SubSeq(seq, 1, Len(seq) - 1)) \o <<"[">> \o seq[Len(seq)] \o <<"]">>

\* The entries with every key rewritten to dots only, to brackets only
InDots(ents) ==
    [k \in 1..Len(ents) |->
        [key |-> DotSpelling(SeqOfKey(ents[k].key)), value |-> ents[k].value]]

InBrackets(ents) ==
    [k \in 1..Len(ents) |->
        [key |-> BracketSpelling(SeqOfKey(ents[k].key)), value |-> ents[k].value]]

\* The four accessors give the same result for both paths on the node
SameLocation(node, p, q) ==
    /\ parsePath(p) = parsePath(q)
    /\ getValue(node, p, Undefined) = getValue(node, q, Undefined)
    /\ hasValue(node, p) = hasValue(node, q)
    /\ setValue(node, p, Str(<<"z">>)) = setValue(node, q, Str(<<"z">>))
    /\ deleteValue(node, p) = deleteValue(node, q)

\* C14: keys that spell the same segment sequence with dots, with brackets
\* or mixed are treated identically: the output is the same when every key
\* is rewritten to dots only or to brackets only, the accessors parse every
\* key to the segments of its sequence, and all four resolve the key and
\* its two rewritings to the same location of the output.
C14_NotationsInterchangeable ==
    (Processed /\ family = "notation") =>
        /\ out = processFormData(InDots(entries))
        /\ out = processFormData(InBrackets(entries))
        /\ \A k \in EntryIds :
              LET key == entries[k].key
                  seq == SeqOfKey(key)
              IN /\ parsePath(key).err = "none"
                 /\ parsePath(key).segs = [i \in 1..Len(seq) |-> Segment(seq[i])]
                 /\ SameLocation(out, key, DotSpelling(seq))
                 /\ SameLocation(out, key, BracketSpelling(seq))

\* One location written twice under two spellings, next to a bracket
\* spelling of the other sequence
C14_Witness ==
    /\ Processed /\ family = "notation" /\ Len(entries) = 3
    /\ entries[1] = [key |-> <<"r", ".", "b", ".", "0">>, value |-> Str(<<"x">>)]
    /\ entries[2] = [key |-> <<"r", "[", "b", "]", "[", "0", "]">>, value |-> Str(<<"y">>)]
    /\ entries[3].key = <<"r", "[", "a", "]">>
    /\ entries[3].value = Str(<<"x">>)
    /\ getValue(out, <<"r", ".", "b", "[", "0", "]">>, Undefined).ret = Str(<<"y">>)

\* ---- C15 ----
\* C15: processFormData never raises: for every sequence of entries, keys
\* with empty fragments, keys made only of separators, consecutive dots and
\* conflicting shapes included, it returns a mapping.
C15_NeverRaises ==
    (Processed /\ family = "conflict") => out.t = "obj"

\* ---- C16 ----
\* The root key of entry k, a path-bearing entry with at least one segment
RootOf(k) == Segs(k)[1]

\* The entries grouped with entry k
GroupOf(k) == {j \in EntryIds : Segs(j) # <<>> /\ RootOf(j) = RootOf(k)}

\* C16: the root key of every path-bearing entry is a key of the output;
\* when the value of every entry of its group is blank, the key is mapped
\* to an empty array or an empty object.
C16_RootKeyAlwaysPresent ==
    (Processed /\ family = "values") =>
        /\ out.t = "obj"
        /\ \A k \in EntryIds :
              /\ HasOwn(out, RootOf(k))
              /\ (\A j \in GroupOf(k) : isEmptyValue(entries[j].value)) =>
                     Get(out, RootOf(k)) \in {EmptyObj, EmptyArr}

\* Two groups, the entries of one all blank
C16_Witness ==
    /\ Processed /\ family = "values" /\ Len(entries) = 3
    /\ \E k \in EntryIds :
          /\ Cardinality(GroupOf(k)) = 2
          /\ \A j \in GroupOf(k) : isEmptyValue(entries[j].value)
          /\ Get(out, RootOf(k)) = EmptyObj
    /\ \E k \in EntryIds : Get(out, RootOf(k)) \notin {EmptyObj, EmptyArr}

\* ---- C17 ----
IsPathBearingEntry(e) == ~IsSimpleKey(e.key)

SimpleEntries(name) == {k \in EntryIds : entries[k].key = name}

\* The path-bearing entries whose root is the name
EntriesBelow(name) ==
    {k \in EntryIds : IsPathBearingEntry(entries[k]) /\ Segs(k) # <<>> /\ RootOf(k) = name}

\* C17: when a name is both a simple key and the root of path-bearing keys,
\* the output maps it to the value built from the path-bearing entries, the
\* one the output has without the simple entries, wherever the simple entry
\* stands.
C17_PathDerivedValueWins ==
    (Processed /\ family = "indexed"
       /\ SimpleEntries(RootR) # {} /\ EntriesBelow(RootR) # {}) =>
        /\ Get(out, RootR).t \in {"arr", "obj"}
        /\ Get(out, RootR) = Get(processFormData(SelectSeq(entries, IsPathBearingEntry)), RootR)
        /\ KeySet(out) = {RootR}

\* One simple entry of the name, at any place among the entries of a group
\* that gives an array of two
C17_Witness ==
    /\ Processed /\ family = "indexed" /\ Len(entries) = 3
    /\ \E k \in 1..3 :
          /\ SimpleEntries(RootR) = {k}
          /\ entries[k].value = Str(<<"a">>)
    /\ EntriesBelow(RootR) # {}
    /\ Get(out, RootR).t = "arr" /\ Get(out, RootR).len = 2

\* ---- C18 ----
\* The strings, files and nulls that stand anywhere in the node
RECURSIVE LeafValues(_)
LeafValues(node) ==
    IF node.t \in {"obj", "arr"}
    THEN UNION {LeafValues(node.e[i].v) : i \in 1..Len(node.e)}
    ELSE {node}

\* C18: a value is dropped only when it is a blank string: with pairwise
\* distinct keys, every file and every null of the input stands in the
\* value the output has for the root of its key, at the top level of a
\* group and at any depth.
C18_NonStringsKept ==
    (Processed /\ family = "values" /\ DistinctKeys) =>
        \A k \in EntryIds :
            entries[k].value.t \in {"file", "null"} =>
                entries[k].value \in LeafValues(Get(out, RootOf(k)))

\* ---- C19 ----
\* Not a blank string and not an object without keys
NonEmptyValue(v) == ~isEmptyValue(v) /\ v # EmptyObj

\* No object in the node is without a key whose value is non-empty
RECURSIVE NoEmptyObjectIn(_)
NoEmptyObjectIn(node) ==
    CASE node.t = "obj" ->
            /\ \E i \in 1..Len(node.e) : NonEmptyValue(node.e[i].v)
            /\ \A i \in 1..Len(node.e) : NoEmptyObjectIn(node.e[i].v)
      [] node.t = "arr" -> \A i \in 1..Len(node.e) : NoEmptyObjectIn(node.e[i].v)
      [] OTHER -> TRUE

\* C19: in every output, every object below a root key has a key whose
\* value is non-empty; no empty object stands below a root key.
C19_NoEmptyObjectBelowRoot ==
    (Processed /\ family = "values") =>
        \A i \in 1..Len(out.e) :
            LET group == out.e[i].v
            IN group.t \in {"obj", "arr"} =>
                   \A j \in 1..Len(group.e) : NoEmptyObjectIn(group.e[j].v)

\* ---- C20 ----
\* The temporary trees processFieldGroups builds for the groups of the input
TempTrees ==
    LET fieldGroups == GroupFields(entries, 1, EmptyObj)
    IN {BuildTemp(fieldGroups.e[i].v, 1, EmptyObj) : i \in 1..Len(fieldGroups.e)}

\* C20: normalizeStructure is idempotent on every temporary tree the
\* builder produces from strings, files and null.
C20_NormalizeIdempotent ==
    (Processed /\ family = "values") =>
        \A t \in TempTrees :
            normalizeStructure(normalizeStructure(t)) = normalizeStructure(t)

\* ---- C21 ----
\* segs without its last segment
Front(segs) == SubSeq(segs, 1, Len(segs) - 1)

\* The segments lead, through containers, to an array in which the last
\* segment is the highest occupied index
EndsAtLastOccupied(node, segs) ==
    /\ segs # <<>>
    /\ LastSegment(segs).t = "num" /\ LastSegment(segs).n >= 0
    /\ StoredAt(node, Front(segs)).t = "arr"
    /\ LET array == StoredAt(node, Front(segs))
       IN /\ HasOwn(array, NumToStr(LastSegment(segs).n))
          /\ \A k \in KeySet(array) :
                IsArrayIndex(k) => parseInt(k).n <= LastSegment(segs).n

\* C21: when the path ends at the last occupied index i of an array,
\* deleteValue removes that element and makes the length of the array i;
\* every other slot, occupied or not, stays at its index with its value.
C21_DeleteLastIndexTruncates ==
    (call.op = "delete" /\ NonNullTarget /\ parsePath(call.path).err = "none"
       /\ EndsAtLastOccupied(call.before, parsePath(call.path).segs)) =>
        LET segs == parsePath(call.path).segs
            i == LastSegment(segs).n
            before == StoredAt(call.before, Front(segs))
            after == StoredAt(root, Front(segs))
        IN /\ call.err = "none" /\ call.ret = root
           /\ after.t = "arr"
           /\ after.len = i
           /\ KeySet(after) = KeySet(before) \ {NumToStr(i)}
           /\ \A k \in KeySet(after) : Get(after, k) = Get(before, k)
           /\ Keys(after) = SelectSeq(Keys(before), LAMBDA k : k # NumToStr(i))

\* The element after a hole is deleted: the array keeps the hole and has
\* length 1
C21_Witness ==
    /\ call.op = "delete" /\ call.err = "none"
    /\ call.path = <<"a", "[", "1", "]">>
    /\ StoredAt(call.before, <<Str(<<"a">>)>>).t = "arr"
    /\ StoredAt(call.before, <<Str(<<"a">>)>>).len = 2
    /\ KeySet(StoredAt(call.before, <<Str(<<"a">>)>>)) = {<<"1">>}
    /\ StoredAt(root, <<Str(<<"a">>)>>).len = 1
    /\ StoredAt(root, <<Str(<<"a">>)>>).e = <<>>

\* ---- C22 ----
\* The accessor segments that name the parts of a key
PathOf(parts) == [i \in 1..Len(parts) |-> Str(parts[i])]

\* Entry j is applied and passes through the position p to a next segment
UsesPosition(j, p) ==
    /\ ~isEmptyValue(entries[j].value)
    /\ Len(Segs(j)) > Len(p)
    /\ IsPrefix(p, Segs(j))

\* The position p is used with a name and with an index as the next segment
MixedUsage(p) ==
    /\ \E j \in EntryIds : UsesPosition(j, p) /\ isNumericKey(Segs(j)[Len(p) + 1])
    /\ \E j \in EntryIds : UsesPosition(j, p) /\ ~isNumericKey(Segs(j)[Len(p) + 1])

\* C22: when a position below the root of a group is used both with a name
\* and with an index as the next segment, processFormData returns, the
\* container at that position is an array when the last entry that uses it
\* continues with an index and an object when it continues with a name, and
\* the value of that entry stands at its path.  Stated for entries whose
\* values are strings.
C22_LastShapeWins ==
    (Processed /\ family = "conflict"
       /\ \A j \in EntryIds : entries[j].value.t = "str") =>
        /\ out.t = "obj"
        /\ \A k \in EntryIds : \A n \in 2..(Len(Segs(k)) - 1) :
              LET p == SubSeq(Segs(k), 1, n)
              IN (/\ UsesPosition(k, p)
                  /\ MixedUsage(p)
                  /\ \A j \in EntryIds : UsesPosition(j, p) => j <= k) =>
                     /\ StoredAt(out, PathOf(p)).t =
                            IF isNumericKey(Segs(k)[n + 1]) THEN "arr" ELSE "obj"
                     /\ StoredAt(out, PathOf(Segs(k))) = entries[k].value

\* ---- C23 ----
\* The entries of the key r[i] whose value is not blank
FilledAt(i) ==
    {k \in IndexedEntries : IndexOfEntry(k) = i /\ NonBlank(entries[k].value.s)}

\* Some key stands in more than one entry
RepeatedKey == \E j, k \in IndexedEntries : j < k /\ entries[j].key = entries[k].key

\* C23: entries are applied in input order and a later one overwrites an
\* earlier one: when entries repeat the key r[i], the output holds for that
\* key (at the place the index takes after renumbering) the value of the
\* last entry of the key that is not blank; a blank entry, wherever it
\* stands, erases nothing.
C23_LastNonBlankWins ==
    (Processed /\ family = "indexed" /\ KeptIndices # {}) =>
        LET array == Get(out, RootR)
        IN /\ IsArray(array)
           /\ array.len = Cardinality(KeptIndices)
           /\ \A i \in KeptIndices :
                 Get(array, NatToStr(RankIn(KeptIndices, i))) =
                     entries[LastOf(FilledAt(i))].value

\* One key three times: a value, another value, then a blank
C23_Witness ==
    /\ Processed /\ family = "indexed" /\ RepeatedKey
    /\ Len(entries) = 3
    /\ \A k \in 1..3 : entries[k].key = IndexKey(RootR, 1)
    /\ entries[1].value = Str(<<"a">>)
    /\ entries[2].value = Str(<<" ", "b">>)
    /\ entries[3].value = Str(<<>>)
    /\ Get(out, RootR) = MakeArray(<<Str(<<" ", "b">>)>>)

\* ---- C24 ----
\* A name: a non-empty string that does not parse as an integer; an index:
\* an integer that is not negative
IsNameOrIndex(seg) ==
    \/ seg.t = "str" /\ seg.s # <<>> /\ parseInt(seg.s).nan
    \/ seg.t = "num" /\ seg.n >= 0

\* C24: for every path the accessors' parser accepts, the parsed result
\* holds at least one segment and every segment is a name or a
\* non-negative index.
C24_AcceptedPathWellFormed ==
    (AccessorCall /\ NonNullTarget /\ parsePath(call.path).err = "none") =>
        LET segs == parsePath(call.path).segs
        IN /\ segs # <<>>
           /\ \A i \in 1..Len(segs) : IsNameOrIndex(segs[i])

\* ---- C25 ----
\* Neither segment sequence continues the other
Unrelated(ps, qs) == ~IsPrefix(ps, qs) /\ ~IsPrefix(qs, ps)

\* The container that stood at the first i segments of the path before the
\* call stands there after it, with every property but the one the path
\* goes on with
ContainerReused(segs, i) ==
    LET was == StoredAt(call.before, SubSeq(segs, 1, i))
        is == StoredAt(root, SubSeq(segs, 1, i))
        key == ToPropertyKey(segs[i + 1])
    IN was.t \in {"obj", "arr", "file"} =>
           /\ is.t = was.t
           /\ (was.t = "file" => is.id = was.id)
           /\ KeySet(is) \ {key} = KeySet(was) \ {key}
           /\ \A k \in KeySet(was) \ {key} : Get(is, k) = Get(was, k)

\* getValue gives for the path q what it gave before the call
SameReading(q) ==
    getValue(root, q, Undefined).ret = getValue(call.before, q, Undefined).ret

NamesLength(segs) == \E i \in 1..Len(segs) : segs[i] = Str(LengthKey)

\* C25 as stated: a completed setValue(root, p, v) returns the root it was
\* given, reuses every container along p, and leaves getValue(root, q) as
\* it was for every accepted path q of which p is no prefix and which is no
\* prefix of p.
C25_SetValueFrame ==
    (call.op = "set" /\ call.err = "none") =>
        LET segs == parsePath(call.path).segs
        IN /\ call.ret = root
           /\ \A i \in 0..(Len(segs) - 1) : ContainerReused(segs, i)
           /\ \A q \in AcceptedPaths :
                 Unrelated(segs, parsePath(q).segs) => SameReading(q)

\* C25 amended: the same, for paths p and q in which no segment is the
\* name length.
C25_SetValueFrameBesideLength ==
    (call.op = "set" /\ call.err = "none"
       /\ ~NamesLength(parsePath(call.path).segs)) =>
        LET segs == parsePath(call.path).segs
        IN /\ call.ret = root
           /\ \A i \in 0..(Len(segs) - 1) : ContainerReused(segs, i)
           /\ \A q \in AcceptedPaths :
                 (Unrelated(segs, parsePath(q).segs) /\ ~NamesLength(parsePath(q).segs)) =>
                     SameReading(q)

\* A second element is set in an array of objects: the array is the one
\* that was there and the first element is read as before
C25_Witness ==
    /\ call.op = "set" /\ call.err = "none"
    /\ call.path = <<"a", "[", "1", "]">>
    /\ StoredAt(call.before, <<Str(<<"a">>)>>).t = "arr"
    /\ StoredAt(call.before, <<Str(<<"a">>), Num(0), Str(<<"b">>)>>) = Str(<<"x">>)
    /\ StoredAt(root, <<Str(<<"a">>), Num(1)>>) = call.arg
    /\ getValue(root, <<"a", "[", "0", "]", ".", "b">>, Undefined).ret = Str(<<"x">>)

\* ---- C26 ----
\* No array of the structure is longer than the array that stood at the
\* same place before
RECURSIVE NoArrayLonger(_, _)
NoArrayLonger(was, is) ==
    IF was.t \in {"obj", "arr", "file"} /\ is.t = was.t
    THEN /\ (was.t = "arr" => is.len <= was.len)
         /\ \A k \in KeySet(was) \cap KeySet(is) : NoArrayLonger(Get(was, k), Get(is, k))
    ELSE TRUE

\* C26: deleteValue never makes an array longer, whatever the accepted
\* path, an index beyond the end of the array included.
C26_DeleteNeverGrows ==
    (call.op = "delete" /\ NonNullTarget /\ parsePath(call.path).err = "none") =>
        NoArrayLonger(call.before, root)

\* ---- C27 ----
\* C27: errors are atomic: whenever one of the four accessors raises an
\* error, the structure passed as root is exactly as it was before the
\* call.
C27_ErrorsAreAtomic ==
    (AccessorCall /\ call.err # "none") => root = call.before

====
